---------------------------- MODULE Spec2Model ----------------------------
(***************************************************************************)
(* Model of the log-filter command line program (src/src/main.rs).         *)
(*                                                                         *)
(* Text is modelled as a sequence of one-character strings, so that        *)
(* splitting a token on its first space, building an error message and     *)
(* parsing an operand are computed character by character, as the code     *)
(* computes them.                                                          *)
(*                                                                         *)
(* Two specifications are given:                                           *)
(*   SpecGrammar  one raw token is handed to one of the three              *)
(*                parse_*_filter functions;                                *)
(*   Spec         one run of main: LogFilter::try_from on the command      *)
(*                line, File::open, the loop over the lines.               *)
(***************************************************************************)
EXTENDS Integers, Sequences, FiniteSets, TLC

VARIABLES
    token,      \* SpecGrammar: the raw token handed to a parse function
    parsed,     \* SpecGrammar: which function ran, and what it returned
    args,       \* FilterArgs: the four optional raw tokens
    file,       \* the items BufReader::lines() yields for the input file
    pc,         \* position of main: start, open, loop, done, failed
    filter,     \* the LogFilter built from args (once built)
    err,        \* the Err main returns with, if any
    opened,     \* whether File::open has been called and succeeded
    idx,        \* number of items of `file` consumed by the loop
    out         \* the lines printed to standard output, in order

vars == <<token, parsed, args, file, pc, filter, err, opened, idx, out>>

(***************************************************************************)
(* Bounds of the model.                                                    *)
(***************************************************************************)
\* A token of the grammar's input pool is at most MaxParts pieces joined by
\* single spaces (a piece may be empty: leading, trailing, doubled spaces).
MaxParts == 3
\* An input file has at most MaxLines lines.
MaxLines == 2

(***************************************************************************)
(* Text literals.                                                          *)
(***************************************************************************)
W_empty == << >>
W_none == <<"n", "o", "n", "e">>
W_any == <<"a", "n", "y">>
W_eq == <<"e", "q">>
W_neq == <<"n", "e", "q">>
W_gt == <<"g", "t">>
W_gte == <<"g", "t", "e">>
W_lt == <<"l", "t">>
W_lte == <<"l", "t", "e">>
W_contains == <<"c", "o", "n", "t", "a", "i", "n", "s">>
W_starts_with == <<"s", "t", "a", "r", "t", "s", "_", "w", "i", "t", "h">>
W_ends_with == <<"e", "n", "d", "s", "_", "w", "i", "t", "h">>
W_EQ == <<"E", "Q">>
W_200 == <<"2", "0", "0">>
W_404 == <<"4", "0", "4">>
W_abc == <<"a", "b", "c">>
W_ip1 == <<"1", ".", "2", ".", "3", ".", "4">>
W_ip2 == <<"1", ".", "2", ".", "3", ".", "5">>
W_T1 == <<"2", "0", "2", "3", "-", "0", "2", "-", "1", "2", "T", "1", "4", ":", "3", "4", ":", "2", "0", "+", "0", "0", ":", "0", "0">>
W_T2 == <<"2", "0", "2", "3", "-", "0", "2", "-", "1", "2", "T", "1", "4", ":", "3", "4", ":", "2", "1", "+", "0", "0", ":", "0", "0">>
W_Mozilla == <<"M", "o", "z", "i", "l", "l", "a">>
W_50 == <<"5", ".", "0">>
W_Chrome == <<"C", "h", "r", "o", "m", "e">>
UA1 == <<"M", "o", "z", "i", "l", "l", "a", "/", "5", ".", "0", " ", "C", "h", "r", "o", "m", "e", "/", "9", "1">>
UA2 == <<"c", "u", "r", "l", "/", "7", ".", "6", "4">>
\* format!("Invalid filter {}", ..) and format!("Invalid value for filter: {}", ..)
InvalidFilterPrefix == <<"I", "n", "v", "a", "l", "i", "d", " ", "f", "i", "l", "t", "e", "r", " ">>
InvalidValuePrefix == <<"I", "n", "v", "a", "l", "i", "d", " ", "v", "a", "l", "u", "e", " ", "f", "o", "r", " ", "f", "i", "l", "t", "e", "r", ":", " ">>

Sp == <<" ">>

(***************************************************************************)
(* Result<T, String> and Option<T>.                                        *)
(***************************************************************************)
Ok(v) == [ok |-> TRUE, val |-> v]
Err(m) == [ok |-> FALSE, msg |-> m]
Absent == [some |-> FALSE]
Some(v) == [some |-> TRUE, v |-> v]

(***************************************************************************)
(* The variants of rs_filter's EqFilter, OrdFilter and StringFilter, as    *)
(* main.rs constructs them.                                                *)
(***************************************************************************)
FNone == [tag |-> "None"]
FAny == [tag |-> "Any"]
Variant(t, x) == [tag |-> t, arg |-> x]

(***************************************************************************)
(* The FromStr implementations parse_or_err is instantiated with.  They    *)
(* belong to the http, std and chrono crates; each is modelled on texts of *)
(* the shape the model's inputs have.                                      *)
(***************************************************************************)
Digits == {"0", "1", "2", "3", "4", "5", "6", "7", "8", "9"}

DigitVal(c) ==
    CASE c = "0" -> 0 [] c = "1" -> 1 [] c = "2" -> 2 [] c = "3" -> 3
      [] c = "4" -> 4 [] c = "5" -> 5 [] c = "6" -> 6 [] c = "7" -> 7
      [] c = "8" -> 8 [] c = "9" -> 9

AllDigits(s) == \A i \in 1..Len(s) : s[i] \in Digits

RECURSIVE NumVal(_)
NumVal(s) ==
    IF Len(s) = 0 THEN 0
    ELSE 10 * NumVal(SubSeq(s, 1, Len(s) - 1)) + DigitVal(s[Len(s)])

\* http::StatusCode: exactly three digits, the first not 0.
StatusCode_from_str(s) ==
    IF Len(s) = 3 /\ AllDigits(s) /\ s[1] # "0"
    THEN Ok(NumVal(s))
    ELSE Err("InvalidStatusCode")

\* s split at every occurrence of the character ch.
RECURSIVE SplitOn(_, _)
SplitOn(s, ch) ==
    IF \A i \in 1..Len(s) : s[i] # ch THEN <<s>>
    ELSE LET i == CHOOSE k \in 1..Len(s) :
                      s[k] = ch /\ \A j \in 1..(k - 1) : s[j] # ch
         IN  <<SubSeq(s, 1, i - 1)>> \o SplitOn(SubSeq(s, i + 1, Len(s)), ch)

Octet(p) ==
    /\ Len(p) \in 1..3
    /\ AllDigits(p)
    /\ (Len(p) > 1 => p[1] # "0")
    /\ NumVal(p) <= 255

\* std::net::IpAddr: a dotted quad of decimal octets (IPv4 literals only).
IpAddr_from_str(s) ==
    LET parts == SplitOn(s, ".")
    IN  IF Len(parts) = 4 /\ \A i \in 1..4 : Octet(parts[i])
        THEN Ok([i \in 1..4 |-> NumVal(parts[i])])
        ELSE Err("AddrParseError")

IsLeap(y) == (y % 4 = 0 /\ y % 100 # 0) \/ y % 400 = 0

DaysInMonth(y, m) ==
    IF m = 2 THEN (IF IsLeap(y) THEN 29 ELSE 28)
    ELSE IF m \in {4, 6, 9, 11} THEN 30 ELSE 31

\* Days from 1970-01-01 to the civil date y-m-d.
DaysFromCivil(y, m, d) ==
    LET yy == IF m <= 2 THEN y - 1 ELSE y
        era == yy \div 400
        yoe == yy - era * 400
        mp == IF m > 2 THEN m - 3 ELSE m + 9
        doy == (153 * mp + 2) \div 5 + d - 1
        doe == yoe * 365 + yoe \div 4 - yoe \div 100 + doy
    IN  era * 146097 + doe - 719468

\* chrono::DateTime<FixedOffset>: yyyy-mm-ddThh:mm:ss+hh:mm.  The value is the
\* instant (seconds since the epoch, UTC): chrono compares DateTimes by instant.
DateTime_from_str(s) ==
    IF /\ Len(s) = 25
       /\ s[5] = "-" /\ s[8] = "-" /\ s[11] = "T" /\ s[14] = ":" /\ s[17] = ":"
       /\ s[20] \in {"+", "-"} /\ s[23] = ":"
       /\ \A i \in {1, 2, 3, 4, 6, 7, 9, 10, 12, 13, 15, 16, 18, 19, 21, 22, 24, 25} :
              s[i] \in Digits
    THEN LET y == NumVal(SubSeq(s, 1, 4))
             m == NumVal(SubSeq(s, 6, 7))
             d == NumVal(SubSeq(s, 9, 10))
             hh == NumVal(SubSeq(s, 12, 13))
             mi == NumVal(SubSeq(s, 15, 16))
             ss == NumVal(SubSeq(s, 18, 19))
             oh == NumVal(SubSeq(s, 21, 22))
             om == NumVal(SubSeq(s, 24, 25))
             off == (IF s[20] = "-" THEN -1 ELSE 1) * (oh * 3600 + om * 60)
         IN  IF /\ m \in 1..12 /\ d >= 1 /\ d <= DaysInMonth(y, m)
                /\ hh < 24 /\ mi < 60 /\ ss < 60 /\ oh < 24 /\ om < 60
             THEN Ok(DaysFromCivil(y, m, d) * 86400 + hh * 3600 + mi * 60 + ss - off)
             ELSE Err("ParseError")
    ELSE Err("ParseError")

\* <T as FromStr>::from_str, T named by Ty.
FromStr(Ty, s) ==
    CASE Ty = "StatusCode" -> StatusCode_from_str(s)
      [] Ty = "IpAddr" -> IpAddr_from_str(s)
      [] Ty = "DateTime" -> DateTime_from_str(s)

(***************************************************************************)
(* The construction grammar (main.rs, lines 42-106).                       *)
(***************************************************************************)
HasSpace(s) == \E i \in 1..Len(s) : s[i] = " "

FirstSpace(s) ==
    CHOOSE i \in 1..Len(s) : s[i] = " " /\ \A j \in 1..(i - 1) : s[j] # " "

\* mutant: str::split(' ') instead of str::splitn(2, ' ')
splitn2_every(value) == SplitOn(value, " ")

\* value.splitn(2, ' ').collect()
splitn2(value) ==
    IF HasSpace(value)
    THEN LET i == FirstSpace(value)
         IN  <<SubSeq(value, 1, i - 1), SubSeq(value, i + 1, Len(value))>>
    ELSE <<value>>

\* mutant: a missing operand is taken as the empty operand
explode_args_lenient(value) ==
    IF Len(splitn2(value)) # 2
    THEN Ok(<<value, W_empty>>)
    ELSE Ok(splitn2(value))

explode_args(value) ==
    IF Len(splitn2(value)) # 2
    THEN Err(InvalidFilterPrefix \o value)
    ELSE Ok(splitn2(value))

\* Result::map_err(|_| m)
map_err(r, m) == IF r.ok THEN r ELSE Err(m)

\* mutant: the message of the format error is reused
parse_or_err_wrong_message(Ty, value) ==
    map_err(FromStr(Ty, value), InvalidFilterPrefix \o value)

parse_or_err(Ty, value) ==
    map_err(FromStr(Ty, value), InvalidValuePrefix \o value)

\* Ok(V(r?)): the variant named tag around the operand r holds, or r's Err.
WithOperand(tag, r) == IF r.ok THEN Ok(Variant(tag, r.val)) ELSE r

\* `let args = explode_args(value)?; match args[0] { .. }` of
\* parse_string_filter, e being what explode_args(value) returned.
match_string(value, e) ==
    IF ~e.ok THEN e
    ELSE CASE e.val[1] = W_contains -> Ok(Variant("Contains", e.val[2]))
           [] e.val[1] = W_eq -> Ok(Variant("Eq", e.val[2]))
           [] e.val[1] = W_starts_with -> Ok(Variant("StartsWith", e.val[2]))
           [] e.val[1] = W_ends_with -> Ok(Variant("EndsWith", e.val[2]))
           [] OTHER -> Err(InvalidFilterPrefix \o value)

\* mutant: the bare keyword `any` is accepted as StringFilter::Any
parse_string_filter_any(value) ==
    IF value = W_none THEN Ok(FNone)
    ELSE IF value = W_any THEN Ok(FAny)
    ELSE match_string(value, explode_args(value))

parse_string_filter(value) ==
    IF value = W_none THEN Ok(FNone)
    ELSE match_string(value, explode_args(value))

\* the same of parse_eq_filter::<Ty>
match_eq(Ty, value, e) ==
    IF ~e.ok THEN e
    ELSE CASE e.val[1] = W_eq -> WithOperand("Eq", parse_or_err(Ty, e.val[2]))
           [] e.val[1] = W_neq -> WithOperand("Neq", parse_or_err(Ty, e.val[2]))
           [] OTHER -> Err(InvalidFilterPrefix \o value)

parse_eq_filter(Ty, value) ==
    IF value = W_none THEN Ok(FNone)
    ELSE match_eq(Ty, value, explode_args(value))

\* mutant: the arms of gt and gte are exchanged
match_ord_swapped(Ty, value, e) ==
    IF ~e.ok THEN e
    ELSE CASE e.val[1] = W_eq -> WithOperand("Eq", parse_or_err(Ty, e.val[2]))
           [] e.val[1] = W_neq -> WithOperand("Neq", parse_or_err(Ty, e.val[2]))
           [] e.val[1] = W_gt -> WithOperand("Gte", parse_or_err(Ty, e.val[2]))
           [] e.val[1] = W_lt -> WithOperand("Lt", parse_or_err(Ty, e.val[2]))
           [] e.val[1] = W_gte -> WithOperand("Gt", parse_or_err(Ty, e.val[2]))
           [] e.val[1] = W_lte -> WithOperand("Lte", parse_or_err(Ty, e.val[2]))
           [] OTHER -> Err(InvalidFilterPrefix \o value)

\* the same of parse_ord_filter::<Ty>
match_ord(Ty, value, e) ==
    IF ~e.ok THEN e
    ELSE CASE e.val[1] = W_eq -> WithOperand("Eq", parse_or_err(Ty, e.val[2]))
           [] e.val[1] = W_neq -> WithOperand("Neq", parse_or_err(Ty, e.val[2]))
           [] e.val[1] = W_gt -> WithOperand("Gt", parse_or_err(Ty, e.val[2]))
           [] e.val[1] = W_lt -> WithOperand("Lt", parse_or_err(Ty, e.val[2]))
           [] e.val[1] = W_gte -> WithOperand("Gte", parse_or_err(Ty, e.val[2]))
           [] e.val[1] = W_lte -> WithOperand("Lte", parse_or_err(Ty, e.val[2]))
           [] OTHER -> Err(InvalidFilterPrefix \o value)

\* mutant: the `none` test is missing
parse_ord_filter_no_none(Ty, value) ==
    match_ord(Ty, value, explode_args(value))

parse_ord_filter(Ty, value) ==
    IF value = W_none THEN Ok(FNone)
    ELSE match_ord(Ty, value, explode_args(value))

(***************************************************************************)
(* SpecGrammar: a raw token is handed to one of the parse functions.       *)
(***************************************************************************)
Pieces ==
    {W_empty, W_none, W_any, W_eq, W_neq, W_gt, W_gte, W_lt, W_lte,
     W_contains, W_starts_with, W_ends_with, W_EQ,
     W_200, W_abc, W_ip1, W_T1, W_Mozilla, W_50}

\* The pieces of p joined by single spaces.
RECURSIVE Join(_)
Join(p) ==
    IF Len(p) = 1 THEN p[1]
    ELSE Join(SubSeq(p, 1, Len(p) - 1)) \o Sp \o p[Len(p)]

TokenPool == {Join(p) : p \in UNION {[1..n -> Pieces] : n \in 1..MaxParts}}

NotParsed == [fn |-> "none"]

NoArgs ==
    [status_code |-> Absent, user_agent |-> Absent, ip |-> Absent,
     timestamp |-> Absent]

NoErr == [kind |-> "none"]

GInit ==
    /\ token \in TokenPool
    /\ parsed = NotParsed
    /\ args = NoArgs
    /\ file = << >>
    /\ pc = "start"
    /\ filter = Absent
    /\ err = NoErr
    /\ opened = FALSE
    /\ idx = 0
    /\ out = << >>

ParseString ==
    /\ parsed = NotParsed
    /\ parsed' = [fn |-> "parse_string_filter", ty |-> "String",
                  res |-> parse_string_filter(token)]
    /\ UNCHANGED <<token, args, file, pc, filter, err, opened, idx, out>>

ParseEq ==
    /\ parsed = NotParsed
    /\ \E Ty \in {"StatusCode", "IpAddr"} :
           parsed' = [fn |-> "parse_eq_filter", ty |-> Ty,
                      res |-> parse_eq_filter(Ty, token)]
    /\ UNCHANGED <<token, args, file, pc, filter, err, opened, idx, out>>

ParseOrd ==
    /\ parsed = NotParsed
    /\ parsed' = [fn |-> "parse_ord_filter", ty |-> "DateTime",
                  res |-> parse_ord_filter("DateTime", token)]
    /\ UNCHANGED <<token, args, file, pc, filter, err, opened, idx, out>>

GNext == ParseString \/ ParseEq \/ ParseOrd

SpecGrammar == GInit /\ [][GNext]_vars

(***************************************************************************)
(* LogFilter::try_from (main.rs, lines 108-119).                           *)
(***************************************************************************)
\* The struct literal of try_from, sc, ua, ip, ts being the four field
\* expressions in the order written: the first Err is returned (`?`).
LogFilterOf(sc, ua, ip, ts) ==
    IF ~sc.ok THEN sc
    ELSE IF ~ua.ok THEN ua
    ELSE IF ~ip.ok THEN ip
    ELSE IF ~ts.ok THEN ts
    ELSE Ok([status_code |-> sc.val, user_agent |-> ua.val,
             ip |-> ip.val, timestamp |-> ts.val])

\* mutant: an absent --user-agent becomes StringFilter::None
try_from_absent_none(value) ==
    LogFilterOf(
        IF value.status_code.some
        THEN parse_eq_filter("StatusCode", value.status_code.v)
        ELSE Ok(FAny),
        IF value.user_agent.some
        THEN parse_string_filter(value.user_agent.v)
        ELSE Ok(FNone),
        IF value.ip.some
        THEN parse_eq_filter("IpAddr", value.ip.v)
        ELSE Ok(FAny),
        IF value.timestamp.some
        THEN parse_ord_filter("DateTime", value.timestamp.v)
        ELSE Ok(FAny))

try_from(value) ==
    LogFilterOf(
        IF value.status_code.some
        THEN parse_eq_filter("StatusCode", value.status_code.v)
        ELSE Ok(FAny),
        IF value.user_agent.some
        THEN parse_string_filter(value.user_agent.v)
        ELSE Ok(FAny),
        IF value.ip.some
        THEN parse_eq_filter("IpAddr", value.ip.v)
        ELSE Ok(FAny),
        IF value.timestamp.some
        THEN parse_ord_filter("DateTime", value.timestamp.v)
        ELSE Ok(FAny))

(***************************************************************************)
(* The input file.  BufReader::lines() yields Result<String>: Ok(text), or *)
(* Err for a line that cannot be read (bytes that are not UTF-8).          *)
(***************************************************************************)
L1 == "1.2.3.4 - - [12/Feb/2023:14:34:21 +0000] \"GET / HTTP/1.1\" 200 5 \"-\" \"Mozilla/5.0 Chrome/91\""
L2 == "1.2.3.5 - - [12/Feb/2023:14:34:20 +0000] \"GET /x HTTP/1.1\" 404 0 \"-\" \"curl/7.64\""
L3 == "1.2.3.4 - - [12/Feb/2023:14:34:20 +0000] \"GET /y HTTP/1.1\" 200 7 \"-\" \"-\""
Garbage == "not a combined log line"

Ip1 == IpAddr_from_str(W_ip1).val
Ip2 == IpAddr_from_str(W_ip2).val
T1 == DateTime_from_str(W_T1).val
T2 == DateTime_from_str(W_T2).val
Status200 == StatusCode_from_str(W_200).val
Status404 == StatusCode_from_str(W_404).val

\* The CombinedLogEntry fields the filter reads.
Entry1 == [ip |-> Ip1, status_code |-> Status200, user_agent |-> Some(UA1), timestamp |-> T2]
Entry2 == [ip |-> Ip2, status_code |-> Status404, user_agent |-> Some(UA2), timestamp |-> T1]
Entry3 == [ip |-> Ip1, status_code |-> Status200, user_agent |-> Absent, timestamp |-> T1]

\* access_log_parser::parse(LogType::CombinedLog, line), on the lines of the model.
parse(line) ==
    CASE line = L1 -> Ok(Entry1)
      [] line = L2 -> Ok(Entry2)
      [] line = L3 -> Ok(Entry3)
      [] OTHER -> Err("ParseError")

LinePool == {Err("read"), Ok(""), Ok(Garbage), Ok(L1), Ok(L2), Ok(L3)}

Files == UNION {[1..n -> LinePool] : n \in 0..MaxLines}

(***************************************************************************)
(* rs_filter: applying a filter to a field, and the is_match that          *)
(* #[filter_for(CombinedLogEntry)] generates for LogFilter.                *)
(***************************************************************************)
apply_eq(v, f) ==
    CASE f.tag = "None" -> FALSE
      [] f.tag = "Any" -> TRUE
      [] f.tag = "Eq" -> v = f.arg
      [] f.tag = "Neq" -> v # f.arg

apply_ord(v, f) ==
    CASE f.tag = "None" -> FALSE
      [] f.tag = "Any" -> TRUE
      [] f.tag = "Eq" -> v = f.arg
      [] f.tag = "Neq" -> v # f.arg
      [] f.tag = "Gt" -> v > f.arg
      [] f.tag = "Gte" -> v >= f.arg
      [] f.tag = "Lt" -> v < f.arg
      [] f.tag = "Lte" -> v <= f.arg

StartsWith(s, p) == Len(p) <= Len(s) /\ SubSeq(s, 1, Len(p)) = p
EndsWith(s, p) == Len(p) <= Len(s) /\ SubSeq(s, Len(s) - Len(p) + 1, Len(s)) = p
Contains(s, p) == \E i \in 0..(Len(s) - Len(p)) : SubSeq(s, i + 1, i + Len(p)) = p

\* on an optional text field
apply_string(v, f) ==
    CASE f.tag = "Any" -> TRUE
      [] f.tag = "None" -> ~v.some
      [] f.tag = "Eq" -> v.some /\ v.v = f.arg
      [] f.tag = "Contains" -> v.some /\ Contains(v.v, f.arg)
      [] f.tag = "StartsWith" -> v.some /\ StartsWith(v.v, f.arg)
      [] f.tag = "EndsWith" -> v.some /\ EndsWith(v.v, f.arg)

is_match(entry, f) ==
    /\ apply_string(entry.user_agent, f.user_agent)
    /\ apply_eq(entry.status_code, f.status_code)
    /\ apply_eq(entry.ip, f.ip)
    /\ apply_ord(entry.timestamp, f.timestamp)

(***************************************************************************)
(* main (main.rs, lines 129-176).                                          *)
(***************************************************************************)
\* mutant: empty and unreadable lines are handed to the parser too
LoopBody_no_skip(f, item, o) ==
    IF ~item.ok \/ ~parse(item.val).ok THEN [abort |-> TRUE, out |-> o]
    ELSE IF is_match(parse(item.val).val, f)
         THEN [abort |-> FALSE, out |-> o \o <<item.val>>]
         ELSE [abort |-> FALSE, out |-> o]

\* mutant: a line that does not parse is skipped instead of ending the run
LoopBody_skip_unparsable(f, item, o) ==
    IF ~item.ok \/ item.val = "" THEN [abort |-> FALSE, out |-> o]
    ELSE IF ~parse(item.val).ok THEN [abort |-> FALSE, out |-> o]
    ELSE IF is_match(parse(item.val).val, f)
         THEN [abort |-> FALSE, out |-> o \o <<item.val>>]
         ELSE [abort |-> FALSE, out |-> o]

\* mutant: the test of is_match is inverted
LoopBody_inverted(f, item, o) ==
    IF ~item.ok \/ item.val = "" THEN [abort |-> FALSE, out |-> o]
    ELSE IF ~parse(item.val).ok THEN [abort |-> TRUE, out |-> o]
    ELSE IF ~is_match(parse(item.val).val, f)
         THEN [abort |-> FALSE, out |-> o \o <<item.val>>]
         ELSE [abort |-> FALSE, out |-> o]

\* One item of reader.lines() through the filter/map adaptors and the body of
\* the for loop: o is what has been printed so far; abort is the `?` of line 144.
LoopBody(f, item, o) ==
    IF ~item.ok \/ item.val = "" THEN [abort |-> FALSE, out |-> o]
    ELSE IF ~parse(item.val).ok THEN [abort |-> TRUE, out |-> o]
    ELSE IF is_match(parse(item.val).val, f)
         THEN [abort |-> FALSE, out |-> o \o <<item.val>>]
         ELSE [abort |-> FALSE, out |-> o]

\* The whole loop over the items, started with o printed.
RECURSIVE RunLines(_, _, _)
RunLines(f, items, o) ==
    IF Len(items) = 0 THEN [abort |-> FALSE, out |-> o]
    ELSE LET r == LoopBody(f, Head(items), o)
         IN  IF r.abort THEN r ELSE RunLines(f, Tail(items), r.out)

StatusArgs ==
    {Absent, Some(W_eq \o Sp \o W_200), Some(W_neq \o Sp \o W_200),
     Some(W_eq \o Sp \o W_abc)}

UserAgentArgs ==
    {Absent, Some(W_none), Some(W_contains \o Sp \o W_Chrome),
     Some(W_starts_with \o Sp \o W_Mozilla \o Sp \o W_50), Some(W_any)}

IpArgs == {Absent, Some(W_eq \o Sp \o W_ip1)}

TimestampArgs ==
    {Absent, Some(W_gt \o Sp \o W_T1), Some(W_lte \o Sp \o W_T1), Some(W_gt)}

Init ==
    /\ token = W_empty
    /\ parsed = NotParsed
    /\ args \in [status_code : StatusArgs, user_agent : UserAgentArgs,
                 ip : IpArgs, timestamp : TimestampArgs]
    /\ file \in Files
    /\ pc = "start"
    /\ filter = Absent
    /\ err = NoErr
    /\ opened = FALSE
    /\ idx = 0
    /\ out = << >>

\* let filter: LogFilter = args.try_into()?;
TryIntoWith(r) ==
    IF r.ok
    THEN /\ filter' = Some(r.val)
         /\ pc' = "open"
         /\ err' = err
    ELSE /\ filter' = filter
         /\ pc' = "failed"
         /\ err' = [kind |-> "filter", msg |-> r.msg]

TryInto ==
    /\ pc = "start"
    /\ TryIntoWith(try_from(args))
    /\ UNCHANGED <<token, parsed, args, file, opened, idx, out>>

\* File::open(cli.file).map_err(|e| e.to_string())?
OpenFile ==
    /\ pc = "open"
    /\ \E ok \in BOOLEAN :
           IF ok
           THEN opened' = TRUE /\ pc' = "loop" /\ err' = err
           ELSE opened' = FALSE /\ pc' = "failed" /\ err' = [kind |-> "io"]
    /\ UNCHANGED <<token, parsed, args, file, filter, idx, out>>

\* one item of the file
LoopStep ==
    /\ pc = "loop"
    /\ idx < Len(file)
    /\ idx' = idx + 1
    /\ LET r == LoopBody(filter.v, file[idx + 1], out)
       IN  /\ out' = r.out
           /\ IF r.abort
              THEN pc' = "failed" /\ err' = [kind |-> "record"]
              ELSE pc' = "loop" /\ err' = err
    /\ UNCHANGED <<token, parsed, args, file, filter, opened>>

\* the iterator is exhausted: Ok(())
LoopEnd ==
    /\ pc = "loop"
    /\ idx = Len(file)
    /\ pc' = "done"
    /\ UNCHANGED <<token, parsed, args, file, filter, err, opened, idx, out>>

Next == TryInto \/ OpenFile \/ LoopStep \/ LoopEnd

Spec == Init /\ [][Next]_vars

(***************************************************************************)
(* Properties of the construction grammar, checked under SpecGrammar.      *)
(***************************************************************************)
Ran == parsed.fn # "none"

\* The text before the first space of a token, and the text after it.
OpOf(t) == SubSeq(t, 1, FirstSpace(t) - 1)
OperandOf(t) == SubSeq(t, FirstSpace(t) + 1, Len(t))

\* The operator table: per parse function, keyword and the variant it names.
OperatorTable(fn) ==
    CASE fn = "parse_eq_filter" -> {<<W_eq, "Eq">>, <<W_neq, "Neq">>}
      [] fn = "parse_ord_filter" ->
             {<<W_eq, "Eq">>, <<W_neq, "Neq">>, <<W_gt, "Gt">>, <<W_gte, "Gte">>,
              <<W_lt, "Lt">>, <<W_lte, "Lte">>}
      [] fn = "parse_string_filter" ->
             {<<W_eq, "Eq">>, <<W_contains, "Contains">>,
              <<W_starts_with, "StartsWith">>, <<W_ends_with, "EndsWith">>}

Recognized(fn, op) == \E e \in OperatorTable(fn) : e[1] = op
TagOf(fn, op) == (CHOOSE e \in OperatorTable(fn) : e[1] = op)[2]

IsErr(r, m) == ~r.ok /\ r.msg = m

\* C1: in each of the three parse functions, a token that is not `none` and
\* holds no space yields Err("Invalid filter <raw>"), <raw> the whole token.
C1_NoSpaceIsFormatError ==
    (Ran /\ token # W_none /\ ~HasSpace(token))
        => IsErr(parsed.res, InvalidFilterPrefix \o token)

\* parse_ord_filter("gt") = Err("Invalid filter gt")
C1_Witness ==
    /\ parsed.fn = "parse_ord_filter"
    /\ token = W_gt
    /\ IsErr(parsed.res, InvalidFilterPrefix \o W_gt)

\* C2 as stated: the bare token `any` parses to the Any variant.
C2_AnyAccepted ==
    (Ran /\ token = W_any) => (parsed.res.ok /\ parsed.res.val.tag = "Any")

\* C2 amended: the bare token `any` is not part of the grammar: in each of the
\* three parse functions it yields Err("Invalid filter any"), and no token
\* parses to the Any variant.
C2_AnyRejected ==
    Ran => /\ (token = W_any => IsErr(parsed.res, InvalidFilterPrefix \o W_any))
           /\ (parsed.res.ok => parsed.res.val.tag # "Any")

C2_Witness ==
    /\ parsed.fn = "parse_string_filter"
    /\ token = W_any
    /\ ~parsed.res.ok

\* C3: in each of the three parse functions and for every target type, the
\* token `none` yields Ok(None).
C3_NoneIsNone ==
    (Ran /\ token = W_none) => (parsed.res.ok /\ parsed.res.val = FNone)

C3_Witness ==
    /\ parsed.fn = "parse_ord_filter"
    /\ token = W_none
    /\ parsed.res.ok

\* C4: for a token with a space, a keyword of the function's operator table
\* yields the variant of that name carrying the operand (for the string
\* family the operand text; for the others the parsed operand, an Err when
\* it does not parse); every other keyword yields
\* Err("Invalid filter <raw>"), whatever the operand.
C4_OperatorTable ==
    (Ran /\ token # W_none /\ HasSpace(token)) =>
        IF Recognized(parsed.fn, OpOf(token))
        THEN IF parsed.fn = "parse_string_filter"
             THEN /\ parsed.res.ok
                  /\ parsed.res.val =
                         Variant(TagOf(parsed.fn, OpOf(token)), OperandOf(token))
             ELSE IF FromStr(parsed.ty, OperandOf(token)).ok
                  THEN /\ parsed.res.ok
                       /\ parsed.res.val =
                              Variant(TagOf(parsed.fn, OpOf(token)),
                                      FromStr(parsed.ty, OperandOf(token)).val)
                  ELSE ~parsed.res.ok
        ELSE IsErr(parsed.res, InvalidFilterPrefix \o token)

\* `gt 200` in the equality family: a keyword of another family, with an
\* operand that would have parsed.
C4_Witness ==
    /\ parsed.fn = "parse_eq_filter"
    /\ parsed.ty = "StatusCode"
    /\ token = W_gt \o Sp \o W_200
    /\ IsErr(parsed.res, InvalidFilterPrefix \o token)

\* C5: in the equality and ordering families, a recognized keyword with an
\* operand the target type does not parse yields
\* Err("Invalid value for filter: <operand>"), <operand> the text after the
\* first space; and a message of that form is returned in no other case, so
\* never by parse_string_filter.
C5_OperandParseError ==
    Ran =>
        /\ (/\ parsed.fn # "parse_string_filter"
            /\ token # W_none
            /\ HasSpace(token)
            /\ Recognized(parsed.fn, OpOf(token))
            /\ ~FromStr(parsed.ty, OperandOf(token)).ok)
               => IsErr(parsed.res, InvalidValuePrefix \o OperandOf(token))
        /\ (~parsed.res.ok /\ StartsWith(parsed.res.msg, InvalidValuePrefix))
               => /\ parsed.fn # "parse_string_filter"
                  /\ token # W_none
                  /\ HasSpace(token)
                  /\ Recognized(parsed.fn, OpOf(token))
                  /\ ~FromStr(parsed.ty, OperandOf(token)).ok

\* `eq abc 200` as a status code: the message holds `abc 200`, not the token.
C5_Witness ==
    /\ parsed.fn = "parse_eq_filter"
    /\ parsed.ty = "StatusCode"
    /\ token = W_eq \o Sp \o W_abc \o Sp \o W_200
    /\ IsErr(parsed.res, InvalidValuePrefix \o W_abc \o Sp \o W_200)

\* C10: a token with a space is split at its first space only, the operand
\* being the whole remainder (with its spaces, or empty), so that
\* explode_args succeeds on it; `contains Mozilla 5.0` is
\* Contains("Mozilla 5.0"), `contains ` is Contains(""), and `gt ` fails at
\* the operand, not at the format.
C10_FirstSpaceOnly ==
    (Ran /\ token # W_none /\ HasSpace(token)) =>
        /\ explode_args(token).ok
        /\ explode_args(token).val = <<OpOf(token), OperandOf(token)>>
        /\ (parsed.fn = "parse_string_filter" /\ Recognized(parsed.fn, OpOf(token)))
               => (parsed.res.ok /\ parsed.res.val.arg = OperandOf(token))
        /\ (parsed.fn # "parse_string_filter" /\ Recognized(parsed.fn, OpOf(token)))
               => \/ parsed.res.ok
                  \/ IsErr(parsed.res, InvalidValuePrefix \o OperandOf(token))
        /\ (parsed.fn = "parse_string_filter"
                /\ token = W_contains \o Sp \o W_Mozilla \o Sp \o W_50)
               => parsed.res = Ok(Variant("Contains", W_Mozilla \o Sp \o W_50))
        /\ (parsed.fn = "parse_string_filter" /\ token = W_contains \o Sp)
               => parsed.res = Ok(Variant("Contains", W_empty))
        /\ (parsed.fn = "parse_ord_filter" /\ token = W_gt \o Sp)
               => IsErr(parsed.res, InvalidValuePrefix)

C10_Witness ==
    /\ parsed.fn = "parse_string_filter"
    /\ token = W_contains \o Sp \o W_Mozilla \o Sp \o W_50
    /\ parsed.res.ok
    /\ parsed.res.val.arg = W_Mozilla \o Sp \o W_50

(***************************************************************************)
(* Properties of a run of main, checked under Spec.                        *)
(***************************************************************************)
FieldNames == {"status_code", "user_agent", "ip", "timestamp"}

\* What the token supplied for a field parses to, by the field's own function.
Grammar(fld, t) ==
    CASE fld = "status_code" -> parse_eq_filter("StatusCode", t)
      [] fld = "user_agent" -> parse_string_filter(t)
      [] fld = "ip" -> parse_eq_filter("IpAddr", t)
      [] fld = "timestamp" -> parse_ord_filter("DateTime", t)

Supplied(fld) == args[fld].some
Malformed(fld) == Supplied(fld) /\ ~Grammar(fld, args[fld].v).ok

FilterFailed == pc = "failed" /\ err.kind = "filter"
RecordFailed == pc = "failed" /\ err.kind = "record"

\* C6: once try_from has run, the build has succeeded iff every supplied
\* token parses; then each field whose flag is absent holds Any and each
\* supplied field holds what its own token parses to; with no flag at all the
\* filter is all Any.
C6_BuildFromArgs ==
    (pc # "start") =>
        /\ filter.some <=> (\A fld \in FieldNames : ~Malformed(fld))
        /\ FilterFailed <=> ~filter.some
        /\ filter.some =>
               \A fld \in FieldNames :
                   IF Supplied(fld)
                   THEN filter.v[fld] = Grammar(fld, args[fld].v).val
                   ELSE filter.v[fld] = FAny
        /\ (args = NoArgs) =>
               (filter.some /\ \A fld \in FieldNames : filter.v[fld] = FAny)

\* --ip supplied alone: the other three fields are Any.
C6_Witness ==
    /\ pc = "open"
    /\ args.ip = Some(W_eq \o Sp \o W_ip1)
    /\ ~args.status_code.some /\ ~args.user_agent.some /\ ~args.timestamp.some
    /\ filter.v.ip = Variant("Eq", Ip1)
    /\ filter.v.status_code = FAny

\* Line i of the file is read and not empty.
NonEmpty(i) == file[i].ok /\ file[i].val # ""
\* Line i is handed to the record parser and does not parse.
FailsToParse(i) == NonEmpty(i) /\ ~parse(file[i].val).ok

Printable(i) ==
    /\ NonEmpty(i)
    /\ parse(file[i].val).ok
    /\ is_match(parse(file[i].val).val, filter.v)
    /\ \A j \in 1..(i - 1) : ~FailsToParse(j)

\* The printable lines among the first n, in file order.
RECURSIVE PrintableUpTo(_)
PrintableUpTo(n) ==
    IF n = 0 THEN << >>
    ELSE PrintableUpTo(n - 1) \o (IF Printable(n) THEN <<file[n].val>> ELSE << >>)

\* C7: what is printed is, in file order and unchanged, exactly the lines that
\* are not empty, parse to a record matching the filter and follow no line
\* that failed to parse: of the lines consumed so far while the loop runs, of
\* the whole file once the run has ended; the run is ended only by a
\* non-empty line that does not parse, or by the end of the file.
C7_PrintedLines ==
    /\ (pc = "loop") => out = PrintableUpTo(idx)
    /\ (pc = "done") => (idx = Len(file) /\ out = PrintableUpTo(Len(file)))
    /\ RecordFailed => (FailsToParse(idx) /\ out = PrintableUpTo(Len(file)))

\* An empty line, then a line that matches.
C7_Witness ==
    /\ pc = "done"
    /\ file = <<Ok(""), Ok(L1)>>
    /\ out = <<L1>>

\* C8: a malformed token ends the run at try_from with the error of a
\* malformed token: the file is never opened, no line is consumed, nothing is
\* printed.  A non-empty line that does not
\* parse ends the run at that line: it is the last line consumed, what was
\* printed before it is what stays printed, and a failed run takes no step.
C8_FailFast ==
    /\ []( /\ (\E fld \in FieldNames : Malformed(fld)) =>
                  (/\ pc \in {"start", "failed"}
                   /\ ~opened /\ idx = 0 /\ out = << >>
                   /\ (pc = "failed" => err.kind = "filter"))
           /\ FilterFailed =>
                  \E fld \in FieldNames :
                      Malformed(fld) /\ err.msg = Grammar(fld, args[fld].v).msg
           /\ \A i \in 1..idx : FailsToParse(i) => (RecordFailed /\ i = idx)
           /\ RecordFailed => out = PrintableUpTo(idx - 1) )
    /\ [][ /\ (pc = "failed" => UNCHANGED vars)
           /\ (pc' = "failed" => out' = out) ]_vars

\* A line is printed, then the next one does not parse.
C8_Witness ==
    /\ RecordFailed
    /\ file = <<Ok(L1), Ok(Garbage)>>
    /\ idx = 2
    /\ out = <<L1>>

Entries == {Entry1, Entry2, Entry3}
Relax(f, fld) == [f EXCEPT ![fld] = FAny]
Range(q) == {q[i] : i \in 1..Len(q)}

\* The variants a field's predicate can hold besides Any.
OtherVariants(fld) ==
    CASE fld = "status_code" ->
             {FNone} \cup {Variant(t, x) : t \in {"Eq", "Neq"}, x \in {Status200, Status404}}
      [] fld = "ip" ->
             {FNone} \cup {Variant(t, x) : t \in {"Eq", "Neq"}, x \in {Ip1, Ip2}}
      [] fld = "user_agent" ->
             {FNone} \cup {Variant(t, x) :
                               t \in {"Eq", "Contains", "StartsWith", "EndsWith"},
                               x \in {W_empty, W_Chrome, W_Mozilla, UA1, UA2}}
      [] fld = "timestamp" ->
             {FNone} \cup {Variant(t, x) :
                               t \in {"Eq", "Neq", "Gt", "Gte", "Lt", "Lte"},
                               x \in {T1, T2}}

\* C9: for the filter built and every record, a record that matches also
\* matches the filter with any one field put back to Any, and a record that
\* matches once a field holding Any is given any other variant matched
\* before; the all-Any filter matches every record; and every line printed is
\* also printed when the same lines are run under the filter with one field
\* put back to Any.
C9_Monotone ==
    filter.some =>
        /\ \A fld \in FieldNames : \A e \in Entries :
               is_match(e, filter.v) => is_match(e, Relax(filter.v, fld))
        /\ \A fld \in FieldNames : \A e \in Entries :
               filter.v[fld] = FAny =>
                   \A v \in OtherVariants(fld) :
                       is_match(e, [filter.v EXCEPT ![fld] = v]) => is_match(e, filter.v)
        /\ (\A fld \in FieldNames : filter.v[fld] = FAny) =>
               \A e \in Entries : is_match(e, filter.v)
        /\ \A fld \in FieldNames :
               Range(out) \subseteq
                   Range(RunLines(Relax(filter.v, fld), SubSeq(file, 1, idx), << >>).out)

\* --user-agent "contains Chrome" prints the first line only; with the field
\* back to Any both lines are printed.
C9_Witness ==
    /\ pc = "done"
    /\ filter.v.user_agent = Variant("Contains", W_Chrome)
    /\ filter.v.status_code = FAny /\ filter.v.ip = FAny /\ filter.v.timestamp = FAny
    /\ file = <<Ok(L1), Ok(L2)>>
    /\ out = <<L1>>

=============================================================================
